---- MODULE Spec2Model ----
(***************************************************************************)
(* Model of the wave poll-download-upload bot (0xAFz/wave).                *)
(*                                                                         *)
(* The repository holds three runnable variants of the same pipeline:      *)
(*   "history" : src/main.go 148-523      (in-memory TrackHistory, loaded  *)
(*               once by run(), saved after every publish)                 *)
(*   "edit"    : src/unnamed/part_003 1-359  (sendOrEditAudio, remembered  *)
(*               message id, no history)                                   *)
(*   "upload"  : src/unnamed/part_003 361-657 (UPLOAD flag, data.json      *)
(*               re-read by every cycle, sendAudio removes the files)      *)
(* The variant is chosen in Init and never changes.                        *)
(*                                                                         *)
(* Strings of the program (track names, artist names, track keys) are      *)
(* sequences of one-character strings, so that fmt.Sprintf / strings.Join  *)
(* are real concatenations.                                                *)
(***************************************************************************)
EXTENDS Integers, Sequences, FiniteSets, TLC

VARIABLES
    variant,     \* which program is running
    upload,      \* UPLOAD environment value ("upload" variant only)
    missing,     \* names of the settings that are not set in the environment
    pc,          \* position of the process: start, fatal, idle, or a step of the cycle
    tick,        \* a tick is buffered in ticker.C (capacity 1)
    track,       \* the Track / Song decoded by the current cycle
    trackKey,    \* trackKey / songKey of the current cycle
    thumbnail,   \* result of getThumbnail in the current cycle ("" = not found)
    history,     \* TrackHistory / dataMap held in memory
    messageID,   \* TelegramClient.messageID ("edit" variant), Nil when unset
    dataFile,    \* data.json on disk
    files,       \* names of the audio/thumbnail files present in the working directory
    cyc,         \* observation of the current (or last finished) cycle
    savedKeys,   \* keys that were marked true and written by a successful save (main.go)
    failedKeys,  \* keys marked true in this process whose save failed
    boot,        \* data.json as run() found it at the last startup
    okId,        \* message id of the last publish the API accepted in this process
    writer,      \* for each thumbnail file present, the key it was fetched for
    kp,          \* track-key study: the track under test and its key
    rt           \* round-trip study: mapping, file written, mapping read back

vars == << variant, upload, missing, pc, tick, track, trackKey, thumbnail, history,
           messageID, dataFile, files, cyc, savedKeys, failedKeys, boot, okId, writer,
           kp, rt >>

mainVars == << variant, upload, missing, pc, tick, track, trackKey, thumbnail, history,
               messageID, dataFile, files, cyc, savedKeys, failedKeys, boot, okId, writer >>

----------------------------------------------------------------------------
(* Bounds *)

NumTracks == 2      \* tracks the player may report (prefix of PlayList)
MaxMsgId == 2       \* message ids the messaging API may return
MaxStrLen == 2      \* length of names / artist names in the key study
NumRtKeys == 3      \* keys available to the round-trip study

----------------------------------------------------------------------------
(* Strings *)

\* byte order of the characters used, for the sorted keys of encoding/json
CharCode == [c \in {" ", ",", "-", "a", "b", "x", "y"} |->
               CASE c = " " -> 32 [] c = "," -> 44 [] c = "-" -> 45
                 [] c = "a" -> 97 [] c = "b" -> 98 [] c = "x" -> 120
                 [] OTHER -> 121]

RECURSIVE Join(_, _)
\* strings.Join(elems, sep)
Join(elems, sep) ==
    IF Len(elems) = 0 THEN << >>
    ELSE IF Len(elems) = 1 THEN elems[1]
    ELSE elems[1] \o sep \o Join(Tail(elems), sep)

KeySep == << " ", "-", " " >>       \* the " - " of fmt.Sprintf("%s - %s", ...)
CommaSep == << ",", " " >>          \* strings.Join(track.Artists, ", ")
SpaceSep == << " " >>               \* getArtists: strings.Join(names, " ")

\* the artists separator each variant puts into its key
ArtistSep(v) == IF v = "upload" THEN SpaceSep ELSE CommaSep

\* mutant: the artists are left out of the key
TrackKeyNameOnly(v, t) == t.name \o KeySep

\* trackKey := fmt.Sprintf("%s - %s", track.Name, strings.Join(track.Artists, ", "))
\* songKey  := fmt.Sprintf("%s - %s", song.Item.Name, getArtists(song.Item.Artists))
TrackKey(v, t) == t.name \o KeySep \o Join(t.artists, ArtistSep(v))

NoTrack == [name |-> << >>, artists |-> << >>]      \* Song{} / no track
NoKey == << >>

PlayList == << [name |-> << "a" >>, artists |-> << << "x" >> >>],
               [name |-> << "b" >>, artists |-> << << "x" >>, << "y" >> >>],
               [name |-> << "a", "b" >>, artists |-> << << "y" >> >>] >>

Tracks == { PlayList[i] : i \in 1..NumTracks }

----------------------------------------------------------------------------
(* Track history store: data.json, loadTrackHistory / saveTrackHistory,    *)
(* loadData / saveData                                                     *)

EmptyHistory == << >>       \* make(TrackHistory): the map with no keys

\* mutant: the lookup never finds a key
LookupNever(h, k) == FALSE

\* history[trackKey] on a Go map: false when the key is absent
Lookup(h, k) == k \in DOMAIN h /\ h[k]

\* history[trackKey] = true
MarkTrue(h, k) == [x \in (DOMAIN h) \cup {k} |-> IF x = k THEN TRUE ELSE h[x]]

RECURSIVE LexLess(_, _)
\* byte-wise string order, the order encoding/json sorts map keys in
LexLess(s, t) ==
    IF Len(s) = 0 THEN Len(t) > 0
    ELSE IF Len(t) = 0 THEN FALSE
    ELSE IF s[1] # t[1] THEN CharCode[s[1]] < CharCode[t[1]]
    ELSE LexLess(Tail(s), Tail(t))

RECURSIVE SortedKeys(_)
SortedKeys(S) ==
    IF S = {} THEN << >>
    ELSE LET m == CHOOSE x \in S : \A y \in S \ {x} : LexLess(x, y)
         IN << m >> \o SortedKeys(S \ {m})

\* the JSON literal of a bool
BoolText(b) == IF b THEN "true" ELSE "false"

\* mutant: members whose value is false are left out
EncodeTrueOnly(h) == LET ks == SortedKeys({ k \in DOMAIN h : h[k] })
                     IN [i \in 1..Len(ks) |-> << ks[i], "true" >>]

\* json.NewEncoder(file).Encode(history): one object, members in key order
Encode(h) == LET ks == SortedKeys(DOMAIN h)
             IN [i \in 1..Len(ks) |-> << ks[i], BoolText(h[ks[i]]) >>]

RECURSIVE DecodeInto(_, _)
\* json.NewDecoder(file).Decode(&history): members are stored one by one
DecodeInto(h, obj) ==
    IF Len(obj) = 0 THEN h
    ELSE LET e == obj[1]
             h1 == [x \in (DOMAIN h) \cup {e[1]} |->
                      IF x = e[1] THEN e[2] = "true" ELSE h[x]]
         IN DecodeInto(h1, Tail(obj))

\* states of data.json
FileMissing == [st |-> "missing", obj |-> << >>]
FileUnreadable == [st |-> "unreadable", obj |-> << >>]   \* os.Open fails, not IsNotExist
FileEmpty == [st |-> "empty", obj |-> << >>]             \* zero bytes
FileGarbage == [st |-> "garbage", obj |-> << >>]         \* cut-off or malformed JSON
FileJson(obj) == [st |-> "json", obj |-> obj]

\* mutant: every failure to open or decode is swallowed
LoadTrackHistoryLenient(f) ==
    IF f.st = "json" THEN [err |-> FALSE, h |-> DecodeInto(EmptyHistory, f.obj)]
    ELSE [err |-> FALSE, h |-> EmptyHistory]

\* loadTrackHistory(filename) / loadData(filename): (history, err)
LoadTrackHistory(f) ==
    CASE f.st = "missing" -> [err |-> FALSE, h |-> EmptyHistory]
      [] f.st = "unreadable" -> [err |-> TRUE, h |-> EmptyHistory]
      [] f.st = "empty" -> [err |-> FALSE, h |-> EmptyHistory]     \* err == io.EOF
      [] f.st = "garbage" -> [err |-> TRUE, h |-> EmptyHistory]
      [] OTHER -> [err |-> FALSE, h |-> DecodeInto(EmptyHistory, f.obj)]

\* what the operating system lets a save do
SaveOutcomes == {"ok", "createFails", "writeFailsEmpty", "writeFailsPartial"}

\* saveTrackHistory(filename, history) / saveData: os.Create truncates the
\* file, Encode then writes it; (file afterwards, err)
SaveTrackHistory(f, h, o) ==
    CASE o = "ok" -> [err |-> FALSE, f |-> FileJson(Encode(h))]
      [] o = "createFails" -> [err |-> TRUE, f |-> f]
      [] o = "writeFailsEmpty" -> [err |-> TRUE, f |-> FileEmpty]
      [] OTHER -> [err |-> TRUE, f |-> FileGarbage]

----------------------------------------------------------------------------
(* Working directory: audio.mp3 and its thumbnails                         *)

AudioFile == "audio.mp3"
JpgFile == "audio.mp3.jpg"
WebpFile == "audio.mp3.webp"
NoThumbnail == ""

\* getThumbnail(filename): the first existing candidate, "" when none
GetThumbnail(v, fs) ==
    IF JpgFile \in fs THEN JpgFile
    ELSE IF v # "edit" /\ WebpFile \in fs THEN WebpFile
    ELSE NoThumbnail

\* os.Remove(name): (err, files afterwards)
OsRemove(fs, name) ==
    IF name \in fs THEN [err |-> FALSE, fs |-> fs \ {name}]
    ELSE [err |-> TRUE, fs |-> fs]

\* thumbnails yt-dlp may leave next to the audio file
ThumbnailsWritten(v) == IF v = "edit" THEN {NoThumbnail, JpgFile}
                        ELSE {NoThumbnail, JpgFile, WebpFile}

----------------------------------------------------------------------------
(* The process: run() / main() and one poll cycle                          *)

Variants == {"history", "edit", "upload"}

Nil == -1                   \* messageID == nil

\* os.Getenv names read by newSpotifyClient / getAccessToken
SpotifySettings == {"SPOTIFY_CLIENT_ID", "SPOTIFY_CLIENT_SECRET", "SPOTIFY_REFRESH_TOKEN"}

\* os.Getenv names read by newTelegramClient / main
TelegramSettings == {"BOT_TOKEN", "CHAT_ID"}

\* everything a program reads at startup or later (".env" is the file of godotenv.Load)
SettingsOf(v) ==
    SpotifySettings \cup TelegramSettings \cup
        (CASE v = "history" -> {".env"}
           [] v = "edit" -> {"REFRESH_INTERVAL"}
           [] v = "upload" -> {"UPLOAD"})

\* what run() / main() insist on before the ticker is created
RequiredAtStartup(v) ==
    CASE v = "history" -> {".env"} \cup SpotifySettings \cup TelegramSettings
      [] v = "edit" -> SpotifySettings \cup {"REFRESH_INTERVAL"} \cup TelegramSettings
      [] v = "upload" -> {"UPLOAD", "CHAT_ID", "BOT_TOKEN"}

\* run() returns an error / main() calls log.Fatal before the loop
ConfigError(v, m) == RequiredAtStartup(v) \cap m # {}

\* the environments considered: complete, or exactly one setting not set
Environments(v) == { {} } \cup { {x} : x \in SettingsOf(v) }

\* no thumbnail file is there (audio.mp3 is written anew by every acquisition
\* that succeeds, the thumbnail files only when yt-dlp found one)
NoWriter == [f \in {JpgFile, WebpFile} |-> NoKey]

\* mutant: the flag is not looked at
UploadEnabledAlways(u) == TRUE

\* processCurrentPlayingSong: if upload == "true" { load, download, send, save }
UploadEnabled(u) == u = "true"

\* the variant keeps a history (TrackHistory, or data.json under UPLOAD=true)
HistoryEnabled == variant = "history" \/ (variant = "upload" /\ upload = "true")

KeysOf(v) == { TrackKey(v, t) : t \in Tracks }

\* keys marked true in a mapping
TrueKeys(h) == { k \in DOMAIN h : h[k] }

\* data.json as an earlier run of the program may have left it
InitialFiles(v) ==
    {FileMissing, FileUnreadable, FileEmpty, FileGarbage}
        \cup { FileJson(Encode([k \in S |-> TRUE])) : S \in SUBSET KeysOf(v) }

\* what one cycle did, reset when the next cycle starts
CycNone == [result |-> "none", query |-> "none", key |-> NoKey,
            h0 |-> EmptyHistory, d0 |-> FileMissing,
            checked |-> FALSE, hchk |-> EmptyHistory,
            acquired |-> FALSE, probed |-> FALSE, published |-> FALSE,
            resp |-> "none", thumb |-> NoThumbnail,
            saveTried |-> FALSE, saveErr |-> FALSE,
            saved0 |-> {}, failed0 |-> {},
            method |-> "none", reqId |-> Nil, ok0 |-> Nil, msg0 |-> Nil,
            dur |-> 0, timedOut |-> FALSE, exit |-> "none",
            thumbOf |-> NoKey]

KpIdle == [pc |-> "off", v |-> "history", t |-> NoTrack, key |-> NoKey]
RtIdle == [pc |-> "off", m |-> EmptyHistory, file |-> FileMissing,
           saveErr |-> FALSE, loadErr |-> FALSE, out |-> EmptyHistory]

Init ==
    /\ variant \in Variants
    /\ missing \in Environments(variant)
    /\ upload \in (IF variant # "upload" THEN {"unset"}
                   ELSE IF "UPLOAD" \in missing THEN {""} ELSE {"true", "false"})
    /\ dataFile \in (IF variant = "history" \/ (variant = "upload" /\ upload = "true")
                     THEN InitialFiles(variant) ELSE {FileMissing})
    /\ pc = "start"
    /\ tick = FALSE
    /\ track = NoTrack
    /\ trackKey = NoKey
    /\ thumbnail = NoThumbnail
    /\ history = EmptyHistory
    /\ messageID = Nil
    /\ files = {}
    /\ cyc = CycNone
    /\ savedKeys = {}
    /\ failedKeys = {}
    /\ boot = FileMissing
    /\ okId = Nil
    /\ writer = NoWriter
    /\ kp = KpIdle
    /\ rt = RtIdle

\* run() / main() up to the ticker: the settings are checked, then (main.go)
\* history, err := loadTrackHistory(dataFileName); any error ends the process
Startup ==
    /\ pc = "start"
    /\ IF ConfigError(variant, missing)
       THEN pc' = "fatal" /\ history' = history /\ boot' = boot
       ELSE /\ boot' = dataFile
            /\ IF variant = "history"
               THEN LET r == LoadTrackHistory(dataFile)
                    IN IF r.err THEN pc' = "fatal" /\ history' = history
                       ELSE pc' = "idle" /\ history' = r.h
               ELSE pc' = "idle" /\ history' = history
    /\ UNCHANGED << variant, upload, missing, tick, track, trackKey, thumbnail, messageID,
                    dataFile, files, cyc, savedKeys, failedKeys, okId, writer, kp, rt >>

\* mutant: an error of the cycle ends the process (log.Fatal)
OnCycleErrorFatal == "fatal"

\* if err := processCurrentTrack(...); err != nil { log.Printf(...) }: the loop goes on
OnCycleError == "idle"

\* the ticker puts a tick into ticker.C; the channel holds one, further ticks are dropped
Tick ==
    /\ pc \notin {"start", "fatal"}
    /\ ~tick
    /\ tick' = TRUE
    /\ UNCHANGED << variant, upload, missing, pc, track, trackKey, thumbnail, history, messageID,
                    dataFile, files, cyc, savedKeys, failedKeys, boot, okId, writer, kp, rt >>

\* the history a cycle starts with: main.go passes the TrackHistory of run() to every
\* call; in the upload program dataMap is a local of the call, gone when it returns
HistoryAtCall(v, h) == IF v = "history" THEN h ELSE EmptyHistory

\* mutant: every tick starts a cycle of its own (go processCurrentTrack(...))
BeginCycleOverlapping ==
    /\ pc \notin {"start", "fatal"}
    /\ tick
    /\ tick' = FALSE
    /\ pc' = "query"
    /\ track' = NoTrack
    /\ trackKey' = NoKey
    /\ thumbnail' = NoThumbnail
    /\ history' = HistoryAtCall(variant, history)
    /\ cyc' = [CycNone EXCEPT !.result = "running", !.h0 = HistoryAtCall(variant, history),
                              !.d0 = dataFile,
                              !.saved0 = savedKeys, !.failed0 = failedKeys,
                              !.ok0 = okId, !.msg0 = messageID]
    /\ UNCHANGED << variant, upload, missing, messageID, dataFile, files,
                    savedKeys, failedKeys, boot, okId, writer, kp, rt >>

\* for range ticker.C { processCurrentTrack(...) }: the loop takes a tick and calls the cycle
BeginCycle ==
    /\ pc = "idle"
    /\ tick
    /\ tick' = FALSE
    /\ pc' = "query"
    /\ track' = NoTrack
    /\ trackKey' = NoKey
    /\ thumbnail' = NoThumbnail
    /\ history' = HistoryAtCall(variant, history)
    /\ cyc' = [CycNone EXCEPT !.result = "running", !.h0 = HistoryAtCall(variant, history),
                              !.d0 = dataFile,
                              !.saved0 = savedKeys, !.failed0 = failedKeys,
                              !.ok0 = okId, !.msg0 = messageID]
    /\ UNCHANGED << variant, upload, missing, messageID, dataFile, files,
                    savedKeys, failedKeys, boot, okId, writer, kp, rt >>

\* answers of the token endpoint and of the currently-playing endpoint
QueryKinds == {"tokenError", "transportError", "status204", "statusOther", "badBody", "status200"}

\* a request that lacks the client id, the secret or the refresh token gets no token
QueryKindsWith(m) ==
    IF SpotifySettings \cap m # {} THEN {"tokenError", "transportError"} ELSE QueryKinds

\* mutant: 204 is not told apart from 200
CurrentTrackResultNo204(v, kind) ==
    IF kind \in {"status200", "status204"} THEN "track" ELSE "error"

\* getCurrentTrack / getCurrentPlaying: what the caller gets for an answer
CurrentTrackResult(v, kind) ==
    CASE kind = "status200" -> "track"
      [] kind = "status204" -> IF v = "upload" THEN "error" ELSE "nothing"
      [] OTHER -> "error"

\* processCurrentTrack / processCurrentPlayingSong up to the computation of the key
GetCurrentTrack ==
    /\ pc = "query"
    /\ \E kind \in QueryKindsWith(missing), body \in Tracks :
         LET res == CurrentTrackResult(variant, kind)
             t == IF kind = "status200" THEN body ELSE NoTrack
         IN CASE res = "track" ->
                   /\ track' = t
                   /\ trackKey' = TrackKey(variant, t)
                   /\ pc' = IF variant = "edit" THEN "download" ELSE "check"
                   /\ cyc' = [cyc EXCEPT !.query = kind, !.key = TrackKey(variant, t)]
              [] res = "nothing" ->
                   /\ pc' = "idle"
                   /\ cyc' = [cyc EXCEPT !.query = kind, !.result = "nil"]
                   /\ UNCHANGED << track, trackKey >>
              [] OTHER ->
                   /\ pc' = OnCycleError
                   /\ cyc' = [cyc EXCEPT !.query = kind, !.result = "error"]
                   /\ UNCHANGED << track, trackKey >>
    /\ UNCHANGED << variant, upload, missing, tick, thumbnail, history, messageID, dataFile, files,
                    savedKeys, failedKeys, boot, okId, writer, kp, rt >>

\* if history[trackKey] { return nil }
\* if upload == "true" { dataMap, err := loadData(dataFile); if dataMap[songKey] { return nil } ... }
CheckHistory ==
    /\ pc = "check"
    /\ IF variant = "history"
       THEN /\ history' = history
            /\ IF Lookup(history, trackKey)
               THEN pc' = "idle" /\ cyc' = [cyc EXCEPT !.checked = TRUE, !.hchk = history, !.result = "nil"]
               ELSE pc' = "download" /\ cyc' = [cyc EXCEPT !.checked = TRUE, !.hchk = history]
       ELSE IF ~UploadEnabled(upload)
       THEN /\ history' = history
            /\ pc' = "idle"
            /\ cyc' = [cyc EXCEPT !.result = "nil"]
       ELSE LET r == LoadTrackHistory(dataFile)
            IN IF r.err
               THEN /\ history' = history
                    /\ pc' = OnCycleError
                    /\ cyc' = [cyc EXCEPT !.result = "error"]
               ELSE /\ history' = r.h
                    /\ IF Lookup(r.h, trackKey)
                       THEN pc' = "idle" /\ cyc' = [cyc EXCEPT !.checked = TRUE, !.hchk = r.h, !.result = "nil"]
                       ELSE pc' = "download" /\ cyc' = [cyc EXCEPT !.checked = TRUE, !.hchk = r.h]
    /\ UNCHANGED << variant, upload, missing, tick, track, trackKey, thumbnail, messageID, dataFile,
                    files, savedKeys, failedKeys, boot, okId, writer, kp, rt >>

\* the files present keep their record, the others have none
Forget(wr, fs) == [f \in DOMAIN wr |-> IF f \in fs THEN wr[f] ELSE NoKey]

\* the files that yt-dlp wrote are recorded as fetched for key k
Fetched(wr, fs, k) == [f \in DOMAIN wr |-> IF f \in fs THEN k ELSE wr[f]]

\* mutant: the exit status of yt-dlp is not looked at
DownloadFailedNever(exitOk) == FALSE

\* if err := downloadFromYouTube(track); err != nil { return ... }: cmd.Run() returns
\* an error for a non-zero exit
DownloadFailed(exitOk) == ~exitOk

\* downloadFromYouTube: yt-dlp exits non-zero, or leaves audio.mp3 and maybe a thumbnail
DownloadFromYouTube ==
    /\ pc = "download"
    /\ \E exitOk \in BOOLEAN, w \in ThumbnailsWritten(variant) :
         LET written == IF exitOk
                        THEN {AudioFile} \cup (IF w = NoThumbnail THEN {} ELSE {w})
                        ELSE {}
         IN /\ files' = files \cup written
            /\ writer' = Fetched(writer, written, trackKey)
            /\ IF DownloadFailed(exitOk)
               THEN /\ pc' = OnCycleError
                    /\ cyc' = [cyc EXCEPT !.acquired = TRUE, !.exit = "failed", !.result = "error"]
               ELSE /\ pc' = "thumb"
                    /\ cyc' = [cyc EXCEPT !.acquired = TRUE,
                                          !.exit = IF exitOk THEN "ok" ELSE "failed"]
    /\ UNCHANGED << variant, upload, missing, tick, track, trackKey, thumbnail, history, messageID,
                    dataFile, savedKeys, failedKeys, boot, okId, kp, rt >>

\* thumbnail, err := getThumbnail(audioFileName); the error is only logged
ProbeThumbnail ==
    /\ pc = "thumb"
    /\ thumbnail' = GetThumbnail(variant, files)
    /\ pc' = "send"
    /\ cyc' = [cyc EXCEPT !.probed = TRUE, !.thumb = GetThumbnail(variant, files)]
    /\ UNCHANGED << variant, upload, missing, tick, track, trackKey, history, messageID, dataFile,
                    files, savedKeys, failedKeys, boot, okId, writer, kp, rt >>

\* answers to the upload: no answer, a status other than 200, or status 200
\* with a body that does not decode, that says ok=false, or that says ok=true
Responses == {"transportError", "non200", "undecodable", "notOk", "ok"}

\* the answer makes the HTTP part of the publish return without error:
\* sendAudio looks at resp.StatusCode only, sendOrEditAudio also decodes the body
ResponseAccepted(v, resp) ==
    IF v = "edit" THEN resp = "ok"
    ELSE resp \in {"undecodable", "notOk", "ok"}

\* httpClientTimeout = 10 * time.Second, the Timeout of every http.Client (seconds)
HttpClientTimeout == 10

\* sendCtx: context.WithTimeout(context.Background(), time.Minute*2) (seconds)
SendTimeout == 120

\* seconds an upload may need until the answer has arrived
UploadSeconds == {5, 60}

Earliest(S) == CHOOSE x \in S : \A y \in S : x <= y

\* the limits on one publish request: the client's Timeout, and the deadline of
\* the request's context where it has one (sendCtx; the others use context.Background
\* or no context)
UploadLimits(v) == {HttpClientTimeout} \cup (IF v = "edit" THEN {SendTimeout} ELSE {})

\* httpClient.Do gives up when the first of the limits has passed
TimedOut(v, dur) == dur >= Earliest(UploadLimits(v))

\* mutant: the remembered message id is not looked at
PublishMethodAlwaysSend(mid) == "sendAudio"

\* sendOrEditAudio: if t.messageID != nil { editMessageMedia } else sendAudio
PublishMethod(mid) == IF mid # Nil THEN "editMessageMedia" ELSE "sendAudio"

\* telegramClient.sendAudio / sendOrEditAudio / sendAudio(botToken, ...) and the
\* caller's error check
SendAudio ==
    /\ pc = "send"
    /\ \E answer \in Responses, id \in 0..MaxMsgId, dur \in UploadSeconds :
         LET late == TimedOut(variant, dur)
             resp == IF late THEN "transportError" ELSE answer
             sent == [cyc EXCEPT !.published = TRUE, !.resp = resp,
                                 !.method = PublishMethod(messageID), !.reqId = messageID,
                                 !.dur = dur, !.timedOut = late,
                                 !.thumbOf = IF thumbnail = NoThumbnail THEN NoKey
                                             ELSE writer[thumbnail]]
         IN
         IF ~ResponseAccepted(variant, resp)
         THEN /\ pc' = OnCycleError
              /\ cyc' = [sent EXCEPT !.result = "error"]
              /\ UNCHANGED << messageID, files, okId >>
         ELSE CASE variant = "history" ->
                     /\ pc' = "mark"
                     /\ cyc' = sent
                     /\ UNCHANGED << messageID, files, okId >>
                [] variant = "edit" ->
                     /\ messageID' = id          \* t.messageID = &respData.Result.MessageID
                     /\ okId' = id
                     /\ pc' = "cleanup"
                     /\ cyc' = sent
                     /\ UNCHANGED files
                [] OTHER ->
                     \* os.Remove(filePath), then os.Remove(thumbnail), each error returned
                     LET r1 == OsRemove(files, AudioFile)
                         r2 == OsRemove(r1.fs, thumbnail)
                     IN /\ UNCHANGED << messageID, okId >>
                        /\ IF r1.err
                           THEN /\ files' = r1.fs
                                /\ pc' = OnCycleError
                                /\ cyc' = [sent EXCEPT !.result = "error"]
                           ELSE IF r2.err
                           THEN /\ files' = r2.fs
                                /\ pc' = OnCycleError
                                /\ cyc' = [sent EXCEPT !.result = "error"]
                           ELSE /\ files' = r2.fs
                                /\ pc' = "mark"
                                /\ cyc' = sent
    /\ writer' = Forget(writer, files')
    /\ UNCHANGED << variant, upload, missing, tick, track, trackKey, thumbnail, history, dataFile,
                    savedKeys, failedKeys, boot, kp, rt >>

\* history[trackKey] = true; saveTrackHistory(...): a save error is only logged
MarkAndSave ==
    /\ pc = "mark"
    /\ \E o \in SaveOutcomes :
         LET h1 == MarkTrue(history, trackKey)
             r == SaveTrackHistory(dataFile, h1, o)
         IN /\ history' = h1
            /\ dataFile' = r.f
            /\ savedKeys' = IF r.err \/ variant # "history" THEN savedKeys
                            ELSE savedKeys \cup TrueKeys(h1)
            /\ failedKeys' = IF r.err THEN failedKeys \cup {trackKey} ELSE failedKeys
            /\ IF variant = "history"
               THEN /\ pc' = "cleanup"
                    /\ cyc' = [cyc EXCEPT !.saveTried = TRUE, !.saveErr = r.err]
               ELSE /\ pc' = "idle"
                    /\ cyc' = [cyc EXCEPT !.saveTried = TRUE, !.saveErr = r.err, !.result = "nil"]
    /\ UNCHANGED << variant, upload, missing, tick, track, trackKey, thumbnail, messageID, files,
                    boot, okId, writer, kp, rt >>

\* mutant: only the audio file is removed
CleanupAudioOnly ==
    /\ pc = "cleanup"
    /\ files' = OsRemove(files, AudioFile).fs
    /\ writer' = Forget(writer, files')
    /\ pc' = "idle"
    /\ cyc' = [cyc EXCEPT !.result = "nil"]
    /\ UNCHANGED << variant, upload, missing, tick, track, trackKey, thumbnail, history, messageID,
                    dataFile, savedKeys, failedKeys, boot, okId, kp, rt >>

\* os.Remove(audioFileName); if thumbnail != "" { os.Remove(thumbnail) }; return nil
Cleanup ==
    /\ pc = "cleanup"
    /\ files' = IF thumbnail # NoThumbnail
                THEN OsRemove(OsRemove(files, AudioFile).fs, thumbnail).fs
                ELSE OsRemove(files, AudioFile).fs
    /\ writer' = Forget(writer, files')
    /\ pc' = "idle"
    /\ cyc' = [cyc EXCEPT !.result = "nil"]
    /\ UNCHANGED << variant, upload, missing, tick, track, trackKey, thumbnail, history, messageID,
                    dataFile, savedKeys, failedKeys, boot, okId, kp, rt >>

\* the process is stopped between cycles (or has exited) and started again:
\* memory is lost, the working directory and data.json stay
Restart ==
    /\ pc \in {"idle", "fatal"}
    /\ pc' = "start"
    /\ tick' = FALSE
    /\ track' = NoTrack
    /\ trackKey' = NoKey
    /\ thumbnail' = NoThumbnail
    /\ history' = EmptyHistory
    /\ messageID' = Nil
    /\ cyc' = CycNone
    /\ okId' = Nil
    /\ failedKeys' = {}
    /\ UNCHANGED << variant, upload, missing, dataFile, files, savedKeys, boot, writer, kp, rt >>

Next ==
    \/ Startup
    \/ Tick
    \/ BeginCycle
    \/ GetCurrentTrack
    \/ CheckHistory
    \/ DownloadFromYouTube
    \/ ProbeThumbnail
    \/ SendAudio
    \/ MarkAndSave
    \/ Cleanup
    \/ Restart

Spec == Init /\ [][Next]_vars

\* one process lifetime: the steps of Next without the restart from outside
NextRun ==
    \/ Startup
    \/ Tick
    \/ BeginCycle
    \/ GetCurrentTrack
    \/ CheckHistory
    \/ DownloadFromYouTube
    \/ ProbeThumbnail
    \/ SendAudio
    \/ MarkAndSave
    \/ Cleanup

\* the ticker keeps sending while the process lives, and the idle loop takes a
\* tick that waits in ticker.C
SpecRun == Init /\ [][NextRun]_vars /\ WF_vars(Tick) /\ WF_vars(BeginCycle)

----------------------------------------------------------------------------
(* Properties of the poll cycle                                            *)

\* C1: in a history-enabled cycle whose track key is already in the history,
\* the cycle ends at the history check: acquisition and publish are not
\* invoked and the history is left as it was, in memory and on disk.
C1_SkipKnownTrack ==
    (cyc.checked /\ cyc.key \in DOMAIN cyc.hchk) =>
        /\ pc = "idle"
        /\ cyc.result = "nil"
        /\ ~cyc.acquired /\ ~cyc.probed /\ ~cyc.published /\ ~cyc.saveTried
        /\ history = cyc.hchk
        /\ (variant = "history" => history = cyc.h0)
        /\ dataFile = cyc.d0

C1_Witness ==
    /\ HistoryEnabled
    /\ pc = "idle"
    /\ cyc.checked
    /\ cyc.key \in DOMAIN cyc.hchk
    /\ cyc.hchk[cyc.key]

\* C2: a cycle whose publish failed (no answer, a status other than 200, or an
\* answer that says ok=false) does not mark the key and does not save.
C2_FailedPublishNotMarked ==
    (cyc.published /\ cyc.resp \in {"transportError", "non200", "notOk"}) =>
        /\ ~Lookup(history, cyc.key)
        /\ ~cyc.saveTried
        /\ dataFile = cyc.d0

\* C3: when the messaging API accepted the upload (200, ok=true), the finished
\* cycle has marked the key true and has tried to save, with or without thumbnail.
C3_AcceptedPublishMarked ==
    (HistoryEnabled /\ pc = "idle" /\ cyc.published /\ cyc.resp = "ok") =>
        /\ Lookup(history, cyc.key)
        /\ cyc.saveTried

\* C4: a key that was marked true and successfully saved before a cycle began
\* is not acquired or published by that cycle, also after a restart.
C4_SavedKeyNeverProcessed ==
    (variant = "history" /\ (cyc.acquired \/ cyc.published)) => cyc.key \notin cyc.saved0

\* C5: a failed save leaves the cycle without error, and a key whose save failed
\* earlier in this process is not acquired or published again.
C5_FailedSaveStillSkips ==
    /\ (cyc.saveErr /\ pc = "idle") => cyc.result = "nil"
    /\ (cyc.acquired \/ cyc.published) => cyc.key \notin cyc.failed0

\* C6: a cycle that got 204 (nothing playing) invokes no acquisition and no
\* publish and leaves the history unchanged in memory and on disk.
C6_NothingPlaying ==
    (cyc.query = "status204") =>
        /\ pc = "idle"
        /\ ~cyc.acquired /\ ~cyc.probed /\ ~cyc.published /\ ~cyc.saveTried
        /\ history = cyc.h0
        /\ dataFile = cyc.d0
        /\ savedKeys = cyc.saved0

C6_Witness ==
    /\ pc = "idle"
    /\ cyc.query = "status204"
    /\ cyc.result \in {"nil", "error"}
    /\ cyc.saved0 # {}

\* C9: run() on a missing data.json gets the empty mapping and reaches the poll
\* loop; on an unreadable or malformed data.json it exits (a zero-byte file is
\* a bare end of input and is not an error).
C9_LoadAtStartup ==
    (variant = "history" /\ ~ConfigError(variant, missing) /\ pc # "start") =>
        /\ (boot.st = "missing" => pc # "fatal")
        /\ (boot.st = "missing" /\ cyc.result = "none" => history = EmptyHistory)
        /\ (boot.st = "empty" => pc # "fatal")
        /\ (boot.st \in {"unreadable", "garbage"} => pc = "fatal")

C9_Witness ==
    /\ variant = "history"
    /\ missing = {}
    /\ pc = "query"
    /\ boot.st = "missing"
    /\ cyc.h0 = EmptyHistory

\* C10: after a cycle whose publish was accepted, the audio file and the
\* thumbnail that was attached are gone, whether a thumbnail was found or not.
C10_FilesRemoved ==
    (pc = "idle" /\ cyc.published /\ cyc.resp = "ok") =>
        /\ AudioFile \notin files
        /\ (cyc.thumb # NoThumbnail => cyc.thumb \notin files)

C10_Witness ==
    /\ pc = "idle"
    /\ cyc.published
    /\ cyc.resp = "ok"
    /\ cyc.thumb = NoThumbnail
    /\ AudioFile \notin files

\* C11: a cycle starts only when the loop is idle and the cycle before it has
\* returned; a tick that arrives while a cycle runs waits in the channel and
\* starts nothing until then.
C11_OneCycleInFlight ==
    [][(pc' = "query" /\ pc # "query") => (pc = "idle" /\ cyc.result # "running")]_vars

C11_Witness ==
    /\ pc \in {"download", "send"}
    /\ tick
    /\ cyc.result = "running"

\* C12 as stated: with the upload flag not "true", a finished cycle that found
\* a playing track has acquired and published it without consulting the history.
C12_DisabledFlagPublishes ==
    (variant = "upload" /\ upload # "true" /\ pc = "idle" /\ cyc.query = "status200") =>
        /\ cyc.acquired
        /\ cyc.published
        /\ ~cyc.checked

\* C12 amended: with the upload flag not "true", a cycle that found a playing
\* track ends without error right after computing the key: nothing is acquired,
\* probed or published, and the history is neither consulted nor written. The
\* editing program, which has no flag and no history, acquires every track found.
C12_DisabledFlagOnlyLogs ==
    /\ (variant = "upload" /\ upload # "true" /\ cyc.query = "status200" /\ pc # "check") =>
          /\ pc = "idle"
          /\ cyc.result = "nil"
          /\ ~cyc.acquired /\ ~cyc.probed /\ ~cyc.published
          /\ ~cyc.checked /\ ~cyc.saveTried
          /\ history = cyc.h0
          /\ dataFile = cyc.d0
          /\ files = {}
    /\ (variant = "edit" /\ cyc.query = "status200" /\ pc \notin {"check", "download"}) =>
          /\ cyc.acquired
          /\ ~cyc.checked /\ ~cyc.saveTried

C12_Witness ==
    /\ variant = "upload"
    /\ upload = "false"
    /\ pc = "idle"
    /\ cyc.query = "status200"
    /\ cyc.key # NoKey
    /\ cyc.result = "nil"

\* C13: with the Spotify client id, secret or refresh token, the bot token or
\* the chat id not set, the process ends at startup and no cycle ever runs.
C13_MissingSettingIsFatal ==
    ((SpotifySettings \cup TelegramSettings) \cap missing # {} /\ pc # "start") =>
        /\ pc = "fatal"
        /\ cyc.result = "none"

\* C14: in the editing program a publish is a sendAudio request exactly when
\* no publish of this process was accepted before it, and otherwise an
\* editMessageMedia request carrying the remembered id; a publish that is not
\* accepted leaves the remembered id as it was; and once a publish was accepted
\* the remembered id stays set (to the id of the last accepted publish).
C14_SendThenEdit ==
    (variant = "edit") =>
        /\ cyc.published => (cyc.method = "sendAudio" <=> cyc.ok0 = Nil)
        /\ (cyc.published /\ cyc.ok0 # Nil) =>
              (cyc.method = "editMessageMedia" /\ cyc.reqId = cyc.ok0)
        /\ (cyc.published /\ cyc.resp # "ok") => messageID = cyc.msg0
        /\ okId # Nil => messageID = okId

C14_Witness ==
    /\ variant = "edit"
    /\ cyc.published
    /\ cyc.method = "editMessageMedia"
    /\ cyc.resp = "notOk"
    /\ cyc.reqId = cyc.ok0
    /\ messageID = cyc.msg0
    /\ messageID # Nil

\* C15: a cycle that ends with an error (token exchange, query, acquisition,
\* publish) leaves the loop idle, never ended; after the failed step no further
\* step of that cycle runs, the failed one included; and with the ticker running
\* the idle loop eventually starts a new cycle.
C15_LoopSurvivesErrors ==
    /\ [](cyc.result = "error" => pc = "idle")
    /\ [][cyc.result = "error" => (cyc' = cyc \/ (pc' = "query" /\ cyc'.result = "running"))]_vars
    /\ ((pc = "idle" /\ cyc.result = "error") ~> (pc = "query" /\ cyc.result = "running"))

\* a new cycle has begun in the editing program while audio.mp3 is still there:
\* an earlier cycle of this run was aborted by a failed publish
C15_Witness ==
    /\ variant = "edit"
    /\ pc = "query"
    /\ cyc.result = "running"
    /\ AudioFile \in files

\* C16: in the editing program, whose publish runs under the two-minute sendCtx,
\* an upload that needs more than the 10 seconds of the metadata calls but less
\* than two minutes is not ended by a timeout.
C16_UploadOutlivesQueryTimeout ==
    (variant = "edit" /\ cyc.published
        /\ cyc.dur > HttpClientTimeout /\ cyc.dur < SendTimeout) => ~cyc.timedOut

\* C17: when yt-dlp exits non-zero the cycle ends at once with an error: no
\* thumbnail probe, no publish, no mark and no save; memory and data.json keep
\* the key unmarked, so a later cycle that finds the same track acquires it again.
C17_FailedDownloadAborts ==
    (cyc.exit = "failed") =>
        /\ pc = "idle"
        /\ cyc.result = "error"
        /\ ~cyc.probed /\ ~cyc.published /\ ~cyc.saveTried
        /\ cyc.thumb = NoThumbnail
        /\ dataFile = cyc.d0
        /\ savedKeys = cyc.saved0
        /\ (variant = "history" => history = cyc.h0)
        /\ ~Lookup(history, cyc.key)
        /\ ~Lookup(LoadTrackHistory(dataFile).h, cyc.key)

C17_Witness ==
    /\ cyc.exit = "failed"
    /\ pc = "idle"
    /\ cyc.checked
    /\ cyc.result = "error"
    /\ cyc.h0 # EmptyHistory

\* C18: a thumbnail attached to a publish was fetched by the acquisition of that
\* cycle, next to the audio file: it is recorded as fetched for the cycle's track.
C18_AttachedFilesAreFresh ==
    (cyc.published /\ cyc.thumb # NoThumbnail) => cyc.thumbOf = cyc.key

----------------------------------------------------------------------------
(* Track key as a function of the track                                    *)

KeyChars == {" ", ",", "-"}

KeyStrings == UNION { [1..n -> KeyChars] : n \in 0..MaxStrLen }

\* no artist, one artist, or two artists
KeyArtistLists == { << >> } \cup { << a >> : a \in KeyStrings }
                    \cup { << a, b >> : a \in KeyStrings, b \in KeyStrings }

KeyTracks == [name : KeyStrings, artists : KeyArtistLists]

\* the main process parked in its initial state while a function is studied
MainParked ==
    /\ variant = "history"
    /\ upload = "unset"
    /\ missing = {}
    /\ dataFile = FileMissing
    /\ pc = "start"
    /\ tick = FALSE
    /\ track = NoTrack
    /\ trackKey = NoKey
    /\ thumbnail = NoThumbnail
    /\ history = EmptyHistory
    /\ messageID = Nil
    /\ files = {}
    /\ cyc = CycNone
    /\ savedKeys = {}
    /\ failedKeys = {}
    /\ boot = FileMissing
    /\ okId = Nil
    /\ writer = NoWriter

InitKey ==
    /\ MainParked
    /\ rt = RtIdle
    /\ kp \in [pc : {"input"}, v : {"history", "upload"}, t : KeyTracks, key : {NoKey}]

\* the cycle computes trackKey / songKey from the decoded track
ComputeKey ==
    /\ kp.pc = "input"
    /\ kp' = [kp EXCEPT !.pc = "done", !.key = TrackKey(kp.v, kp.t)]
    /\ UNCHANGED mainVars
    /\ UNCHANGED rt

NextKey == ComputeKey

SpecKey == InitKey /\ [][NextKey]_vars

HasSpace(s) == \E i \in 1..Len(s) : s[i] = " "

\* no space in the name or in any artist name, and at least one artist
Plain(t) ==
    /\ ~HasSpace(t.name)
    /\ Len(t.artists) >= 1
    /\ \A i \in 1..Len(t.artists) : ~HasSpace(t.artists[i])

PlainTracks == { t \in KeyTracks : Plain(t) }

\* the plain tracks with their keys, per key format
PlainKeyTable == [v \in {"history", "upload"} |-> { << TrackKey(v, t), t >> : t \in PlainTracks }]

\* C7 as stated: equal tracks have equal keys, and any two tracks that differ
\* in name or artist sequence have different keys.
C7_KeyIdentifiesTrack ==
    (kp.pc = "done") =>
        \A t2 \in KeyTracks :
            /\ (t2 = kp.t => TrackKey(kp.v, t2) = kp.key)
            /\ (t2 # kp.t => TrackKey(kp.v, t2) # kp.key)

\* C7 amended: equal tracks have equal keys, and two tracks that differ in name
\* or artist sequence (also only in order) have different keys provided neither
\* has a space in its name or artist names and both have at least one artist.
C7_KeyIdentifiesPlainTrack ==
    (kp.pc = "done") =>
        /\ TrackKey(kp.v, [name |-> kp.t.name, artists |-> kp.t.artists]) = kp.key
        /\ Plain(kp.t) =>
              \A p \in PlainKeyTable[kp.v] : (p[2] # kp.t => p[1] # kp.key)

C7_Witness ==
    /\ kp.pc = "done"
    /\ Plain(kp.t)
    /\ Len(kp.t.artists) = 2
    /\ kp.t.artists[1] # kp.t.artists[2]
    /\ kp.key # TrackKey(kp.v, [kp.t EXCEPT !.artists = << kp.t.artists[2], kp.t.artists[1] >>])

----------------------------------------------------------------------------
(* History round trip: save then load                                      *)

RtKeyList == << << "a" >>, << "b", " ", "-", " ", "x" >>, << "a", " ", "-", " ", "x", ",", " ", "y" >>,
                << "a", "b" >> >>

RtKeys == { RtKeyList[i] : i \in 1..NumRtKeys }

RtMaps == UNION { [S -> BOOLEAN] : S \in SUBSET RtKeys }

InitRT ==
    /\ MainParked
    /\ kp = KpIdle
    /\ rt \in [pc : {"input"}, m : RtMaps,
               file : {FileMissing, FileGarbage, FileJson(Encode([k \in RtKeys |-> TRUE]))},
               saveErr : {FALSE}, loadErr : {FALSE}, out : {EmptyHistory}]

\* saveTrackHistory(path, m)
RtSave ==
    /\ rt.pc = "input"
    /\ \E o \in SaveOutcomes :
         LET r == SaveTrackHistory(rt.file, rt.m, o)
         IN rt' = [rt EXCEPT !.pc = "saved", !.file = r.f, !.saveErr = r.err]
    /\ UNCHANGED mainVars
    /\ UNCHANGED kp

\* loadTrackHistory(path)
RtLoad ==
    /\ rt.pc = "saved"
    /\ LET l == LoadTrackHistory(rt.file)
       IN rt' = [rt EXCEPT !.pc = "loaded", !.loadErr = l.err, !.out = l.h]
    /\ UNCHANGED mainVars
    /\ UNCHANGED kp

NextRT == RtSave \/ RtLoad

SpecRT == InitRT /\ [][NextRT]_vars

\* C8: after a successful save of a mapping, a load from the same path succeeds
\* and returns the same keys with the same boolean values.
C8_RoundTrip ==
    (rt.pc = "loaded" /\ ~rt.saveErr) =>
        /\ ~rt.loadErr
        /\ DOMAIN rt.out = DOMAIN rt.m
        /\ \A k \in DOMAIN rt.m : rt.out[k] = rt.m[k]

C8_Witness ==
    /\ rt.pc = "loaded"
    /\ ~rt.saveErr
    /\ \E k1, k2 \in DOMAIN rt.m : rt.m[k1] /\ ~rt.m[k2]
    /\ rt.out = rt.m

====
